---- MODULE Spec2Model ----
(***************************************************************************)
(* A state-machine model of the SignalSafe AI service (ai-service/app):    *)
(* the cluster statistics tracker (ClusteringService), the anomaly         *)
(* detector (AdvancedAnomalyService), the escalation compositor            *)
(* (EscalationService) and the /analyze handler that composes them.        *)
(*                                                                         *)
(* Numbers.  Python floats are modelled in exact arithmetic:               *)
(*   - a rational is a pair <<n, d>> with d > 0, compared by cross         *)
(*     multiplication;                                                     *)
(*   - a standard deviation sqrt(D)/n is the pair <<D, n>>;                *)
(*   - a sentiment polarity is an integer number of tenths (9 is 0.9);     *)
(*   - an anomaly score, which the code rounds to 2 decimals, is an        *)
(*     integer number of hundredths (10000 is 100.0).                      *)
(***************************************************************************)
EXTENDS Integers, Sequences, FiniteSets, TLC

VARIABLES
    previous_sizes,          \* ClusteringService.previous_sizes: clusterId -> size
    seen_size,               \* history: label -> its count in the last call carrying it
    SKLEARN_AVAILABLE,       \* module flag of anomaly_service, fixed at import
    window_size,             \* AdvancedAnomalyService.window_size
    volume_history,          \* deque(maxlen = window_size)
    sentiment_accel_history, \* deque(maxlen = window_size)
    growth_rate_history,     \* deque(maxlen = window_size)
    mean_volume,             \* rational <<sum, n>>
    std_volume,              \* <<D, n>>, standing for sqrt(D)/n
    scaler,                  \* "None" or "StandardScaler"
    isolation_forest,        \* "None" or "IsolationForest"
    feature_buffer,          \* list of feature vectors
    use_fallback,            \* the detector's mode: TRUE is Fallback
    sentiment_history,       \* EscalationService.sentiment_history, deque(maxlen = 20)
    op,                      \* the operation that ran last
    args,                    \* its arguments
    result,                  \* what it returned
    raised,                  \* "none", or the exception that reached the caller
    path,                    \* the branches the last anomaly call took, one per detect_advanced
    spikes,                  \* history: the spike observations appended since the last reset
    served,                  \* history: the /analyze requests served so far
    called,                  \* history: the collaborators the last /analyze request invoked
    tasks,                   \* the /analyze requests received: the coroutine of each
    running                  \* the coroutine the event loop is executing, 0 if none

vars == <<previous_sizes, seen_size, SKLEARN_AVAILABLE, window_size, volume_history,
          sentiment_accel_history, growth_rate_history, mean_volume, std_volume,
          scaler, isolation_forest, feature_buffer, use_fallback,
          sentiment_history, op, args, result, raised, path, spikes, served,
          called, tasks, running>>

clusterVars == <<previous_sizes, seen_size>>
detectorVars == <<SKLEARN_AVAILABLE, window_size, volume_history, sentiment_accel_history,
                  growth_rate_history, mean_volume, std_volume, scaler,
                  isolation_forest, feature_buffer, use_fallback>>
escalationVars == <<sentiment_history>>
loopVars == <<tasks, running>>

----------------------------------------------------------------------------
(* Arithmetic helpers *)

Abs(x) == IF x < 0 THEN -x ELSE x
Min(a, b) == IF a < b THEN a ELSE b
Max(a, b) == IF a > b THEN a ELSE b

RECURSIVE SumSeq(_)
SumSeq(s) == IF s = <<>> THEN 0 ELSE Head(s) + SumSeq(Tail(s))

RECURSIVE SumSq(_)
SumSq(s) == IF s = <<>> THEN 0 ELSE Head(s) * Head(s) + SumSq(Tail(s))

\* rationals <<n, d>>, d > 0
RatEq(a, b) == a[1] * b[2] = b[1] * a[2]
RatLt(a, b) == a[1] * b[2] < b[1] * a[2]
RatLe(a, b) == a[1] * b[2] <= b[1] * a[2]
RatAdd(a, b) == <<a[1] * b[2] + b[1] * a[2], a[2] * b[2]>>
RatMin(a, b) == IF RatLt(a, b) THEN a ELSE b

\* np.mean of a non-empty sequence of integers
NpMean(s) == <<SumSeq(s), Len(s)>>
\* np.std (population), as <<D, n>> with std = sqrt(D)/n, D = n*sum(x^2) - sum(x)^2
NpStd(s) == <<Len(s) * SumSq(s) - SumSeq(s) * SumSeq(s), Len(s)>>

\* a variant of the bounded append that starts over when full
DequeAppendStartsOver(s, x, cap) == IF Len(s) >= cap THEN <<x>> ELSE Append(s, x)

\* a variant of the bounded append that refuses the new value when full
DequeAppendKeepsOldest(s, x, cap) == IF Len(s) >= cap THEN s ELSE Append(s, x)

\* s with x appended, as collections.deque(maxlen = cap) does it
DequeAppend(s, x, cap) ==
    LET t == Append(s, x)
    IN  IF Len(t) > cap THEN SubSeq(t, Len(t) - cap + 1, Len(t)) ELSE t

RECURSIVE DequeExtend(_, _, _)
DequeExtend(s, xs, cap) ==
    IF xs = <<>> THEN s ELSE DequeExtend(DequeAppend(s, Head(xs), cap), Tail(xs), cap)

----------------------------------------------------------------------------
(* Texts: a Python str is a TLA+ string; its i-th character is SubSeq(s, i, i) *)

LowerLetters == "abcdefghijklmnopqrstuvwxyz"
UpperLetters == "ABCDEFGHIJKLMNOPQRSTUVWXYZ"
OtherWordChars == {"0", "1", "2", "3", "4", "5", "6", "7", "8", "9", "_"}

CharAt(s, i) == SubSeq(s, i, i)
IndexIn(c, alphabet) ==
    IF \E i \in 1..Len(alphabet) : CharAt(alphabet, i) = c
    THEN CHOOSE i \in 1..Len(alphabet) : CharAt(alphabet, i) = c
    ELSE 0
LowerChar(c) ==
    IF IndexIn(c, UpperLetters) > 0 THEN CharAt(LowerLetters, IndexIn(c, UpperLetters)) ELSE c
IsLetter(c) == IndexIn(c, LowerLetters) > 0 \/ IndexIn(c, UpperLetters) > 0
\* \w of the regular expression: a letter, a digit or the underscore
IsWordChar(c) == IsLetter(c) \/ c \in OtherWordChars

\* str.lower()
RECURSIVE Lower(_)
Lower(s) == IF Len(s) = 0 THEN "" ELSE LowerChar(CharAt(s, 1)) \o Lower(SubSeq(s, 2, Len(s)))

\* the last position of the run of letters that starts at i
RECURSIVE RunEnd(_, _)
RunEnd(s, i) == IF i < Len(s) /\ IsLetter(CharAt(s, i + 1)) THEN RunEnd(s, i + 1) ELSE i

MinWordLen == 4

\* re.findall(r'\b[a-zA-Z]{4,}\b', s): scanning from position i. A match starts at a
\* letter that follows a non-word character (or the start), takes the whole run of
\* letters, and needs a non-word character (or the end) after it; inside a run of
\* word characters \b never holds, so a run that touches a digit or an underscore
\* yields nothing.
RECURSIVE FindAll(_, _)
FindAll(s, i) ==
    IF i > Len(s) THEN <<>>
    ELSE IF /\ IsLetter(CharAt(s, i))
            /\ (i = 1 \/ ~IsWordChar(CharAt(s, i - 1)))
            /\ RunEnd(s, i) - i + 1 >= MinWordLen
            /\ (RunEnd(s, i) = Len(s) \/ ~IsWordChar(CharAt(s, RunEnd(s, i) + 1)))
         THEN <<SubSeq(s, i, RunEnd(s, i))>> \o FindAll(s, RunEnd(s, i) + 1)
         ELSE FindAll(s, i + 1)

StopWords == {"this", "that", "with", "from", "have", "been", "will", "just", "about"}

\* the words of one text that are counted: lowercased, tokenized, stop words dropped
CountedWords(text) == SelectSeq(FindAll(Lower(text), 1), LAMBDA w : w \notin StopWords)

\* the post texts of the model and the polarity the sentiment provider gives each
\* (the classifier is a function of the text); tenths
Text1 == "Fire at the plant, FIRE spreading fast"
Text2 == "this is just a test with smoke99 data"
Texts == {Text1, Text2}
SentimentOf == (Text1 :> -9) @@ (Text2 :> 9)
\* more texts, for _extract_keywords called on its own
Text3 == "About THAT fire: have been Burning, burning!"
Text4 == "data_set test4 wind fast data abc"
Text5 == "will Rain rain RAIN from dust"
KeywordTexts == Texts \cup {Text3, Text4, Text5}
WordsOf == [t \in KeywordTexts |-> CountedWords(t)]
Words(text) == IF text \in KeywordTexts THEN WordsOf[text] ELSE CountedWords(text)

\* word_freq: a dict keeps its keys in insertion order; here a sequence of <<word, count>>
RECURSIVE CountWords(_, _)
CountWords(words, freq) ==
    IF words = <<>> THEN freq
    ELSE LET w == Head(words)
             at == {i \in DOMAIN freq : freq[i][1] = w}
         IN  CountWords(Tail(words),
                        IF at = {} THEN Append(freq, <<w, 1>>)
                        ELSE [i \in DOMAIN freq |->
                                 IF i \in at THEN <<w, freq[i][2] + 1>> ELSE freq[i]])

RECURSIVE WordFreq(_, _)
WordFreq(texts, freq) ==
    IF texts = <<>> THEN freq ELSE WordFreq(Tail(texts), CountWords(Words(Head(texts)), freq))

\* a variant of the sort that puts the last of the equal counts first
RECURSIVE SortedLastTieFirst(_)
SortedLastTieFirst(items) ==
    IF items = <<>> THEN <<>>
    ELSE LET top == CHOOSE i \in DOMAIN items :
                        /\ \A j \in DOMAIN items : items[j][2] <= items[i][2]
                        /\ \A j \in (i + 1)..Len(items) : items[j][2] < items[i][2]
         IN  <<items[top]>> \o
             SortedLastTieFirst(SubSeq(items, 1, top - 1) \o
                                SubSeq(items, top + 1, Len(items)))

\* sorted(items, key = count, reverse = True): stable, so equal counts keep their order
RECURSIVE SortedByCount(_)
SortedByCount(items) ==
    IF items = <<>> THEN <<>>
    ELSE LET top == CHOOSE i \in DOMAIN items :
                        /\ \A j \in DOMAIN items : items[j][2] <= items[i][2]
                        /\ \A j \in 1..(i - 1) : items[j][2] < items[i][2]
         IN  <<items[top]>> \o
             SortedByCount(SubSeq(items, 1, top - 1) \o SubSeq(items, top + 1, Len(items)))

\* a variant of the cut that lets a sixth keyword through
SixKeywords == 5 + 1

MaxKeywords == 5

_extract_keywords(texts) ==
    LET sorted_words == SortedByCount(WordFreq(texts, <<>>))
    IN  [i \in 1..Min(MaxKeywords, Len(sorted_words)) |-> sorted_words[i][1]]

----------------------------------------------------------------------------
(* ClusteringService *)

NoiseLabel == -1

ClusterId(label) == "cluster-" \o ToString(label)

RECURSIVE Ascending(_)
Ascending(S) ==
    IF S = {} THEN <<>>
    ELSE LET m == CHOOSE x \in S : \A y \in S : x <= y IN <<m>> \o Ascending(S \ {m})

\* set(labels), in the order the loop visits it (small integers: ascending)
UniqueLabels(labels) == Ascending({labels[i] : i \in DOMAIN labels})

\* np.where(labels == label)[0], 1-based
Indices(labels, label) == Ascending({i \in DOMAIN labels : labels[i] = label})

\* self.previous_sizes.get(cluster_id, 0)
PrevSize(mem, cluster_id) == IF cluster_id \in DOMAIN mem THEN mem[cluster_id] ELSE 0

\* ((size - prev_size) / max(prev_size, 1)) * 100
GrowthRate(size, prev_size) == <<(size - prev_size) * 100, Max(prev_size, 1)>>

\* a variant of the store that never lets a recorded size go down
StoreLargestSize(mem, cluster_id, size) ==
    [k \in DOMAIN mem \cup {cluster_id} |->
        IF k = cluster_id
        THEN (IF k \in DOMAIN mem /\ mem[k] > size THEN mem[k] ELSE size)
        ELSE mem[k]]

\* a variant of the store that forgets every other cluster id
StoreOnlySize(mem, cluster_id, size) == [k \in {cluster_id} |-> size]

\* self.previous_sizes[cluster_id] = size
StoreSize(mem, cluster_id, size) ==
    [k \in DOMAIN mem \cup {cluster_id} |-> IF k = cluster_id THEN size ELSE mem[k]]

\* a variant of the noise test that skips nothing
NothingIsNoise(label) == FALSE

\* label == -1
IsNoise(label) == label = NoiseLabel

\* the dict built for one label by one pass of the loop
ClusterSummary(label, indices, texts, sentiments, mem) ==
    LET cluster_texts == [k \in DOMAIN indices |-> texts[indices[k]]]
        cluster_sentiments == [k \in DOMAIN indices |-> sentiments[indices[k]]]
        size == Len(indices)
    IN  [clusterId |-> ClusterId(label),
         keywords |-> _extract_keywords(cluster_texts),
         size |-> size,
         avgSentiment |-> NpMean(cluster_sentiments),
         growthRate |-> GrowthRate(size, PrevSize(mem, ClusterId(label))),
         volatilityIndex |-> NpStd(cluster_sentiments)]

\* the loop of get_cluster_info over the labels still to visit; an index past the end
\* of texts or sentiments raises IndexError out of the call, the memory written so
\* far staying written
RECURSIVE ClusterLoop(_, _, _, _, _, _)
ClusterLoop(todo, labels, texts, sentiments, mem, clusters) ==
    IF todo = <<>> THEN [previous_sizes |-> mem, clusters |-> clusters, raised |-> "none"]
    ELSE LET label == Head(todo)
             indices == Indices(labels, label)
         IN  IF IsNoise(label)
             THEN ClusterLoop(Tail(todo), labels, texts, sentiments, mem, clusters)
             ELSE IF \E k \in DOMAIN indices :
                         indices[k] > Len(texts) \/ indices[k] > Len(sentiments)
             THEN [previous_sizes |-> mem, clusters |-> <<>>, raised |-> "IndexError"]
             ELSE ClusterLoop(Tail(todo), labels, texts, sentiments,
                              StoreSize(mem, ClusterId(label), Len(indices)),
                              Append(clusters,
                                     ClusterSummary(label, indices, texts, sentiments, mem)))

get_cluster_info(labels, texts, sentiments, mem) ==
    ClusterLoop(UniqueLabels(labels), labels, texts, sentiments, mem, <<>>)

----------------------------------------------------------------------------
(* AdvancedAnomalyService *)

RECURSIVE Gcd(_, _)
Gcd(a, b) == IF b = 0 THEN a ELSE Gcd(b, a % b)

\* floor(sqrt(scale * N / M)), given floor(sqrt(scale/100 * N / M)): one more digit
NextDigit(N, M, before, scale) ==
    CHOOSE t \in (10 * before)..(10 * before + 9) :
        t * t * M <= scale * N /\ (t + 1) * (t + 1) * M > scale * N

\* floor(20000 * sqrt(N / M)) for 0 <= N < M, one decimal digit at a time so that
\* every intermediate product stays a 32-bit integer
HalfHundredths(N, M) ==
    LET t3 == NextDigit(N, M, NextDigit(N, M, NextDigit(N, M, NextDigit(N, M, 0, 4), 400),
                                        40000), 4000000)
        rem == 4000000 * N - M * t3 * t3
        fits(h) == M * (20 * t3 * h + h * h) <= 100 * rem
        h4 == CHOOSE h \in 0..9 : fits(h) /\ (h = 9 \/ ~fits(h + 1))
    IN  10 * t3 + h4

\* round(x, 2) in hundredths, for x = 100 * sqrt(N / M) with N < M
RoundedRoot(N, M) == (HalfHundredths(N, M) + 1) \div 2

\* a variant of the guard that lets every deviation through
StdNeverBelowThreshold(sd) == FALSE

\* self.std_volume < 0.1, for the deviation sqrt(D)/n
StdBelowThreshold(sd) == 100 * sd[1] < sd[2] * sd[2]

\* a variant of the normalisation that divides |z| by 2 instead of 3
ZScorePointsOverTwo(current_volume, mean, sd) ==
    LET a == Abs(mean[2] * current_volume - mean[1])
        g == Gcd(a * a, 4 * sd[1])
        N == (a * a) \div g
        M == (4 * sd[1]) \div g
    IN  IF a = 0 THEN 0 ELSE IF N >= M THEN 10000 ELSE RoundedRoot(N, M)

\* round(min(100, max(0, (abs(z_score) / 3) * 100)), 2) in hundredths, where
\* z_score = (current_volume - mean) / std = (n*v - sum) / sqrt(D)
ZScorePoints(current_volume, mean, sd) ==
    LET a == Abs(mean[2] * current_volume - mean[1])
        g == Gcd(a * a, 9 * sd[1])
        N == (a * a) \div g
        M == (9 * sd[1]) \div g
    IN  IF a = 0 THEN 0 ELSE IF N >= M THEN 10000 ELSE RoundedRoot(N, M)

\* a variant of the sample threshold: two observations are enough
TwoSamples == 1 + 1

MinZscoreSamples == 5

\* _detect_zscore: the score, the statistics it leaves behind, the branch it took
_detect_zscore(history, current_volume, mean0, std0) ==
    LET mean == NpMean(history)
        sd == NpStd(history)
    IN  IF Len(history) < MinZscoreSamples
        THEN [score |-> 0, mean_volume |-> mean0, std_volume |-> std0, z |-> "few"]
        ELSE IF StdBelowThreshold(sd)
        THEN [score |-> 0, mean_volume |-> mean, std_volume |-> sd, z |-> "flat"]
        ELSE [score |-> ZScorePoints(current_volume, mean, sd),
              mean_volume |-> mean, std_volume |-> sd, z |-> "z"]

\* max(0, min(100, (0.5 - anomaly_score_raw) * 200)), rounded to 2 decimals, in
\* hundredths; the raw score is in thousandths
OutlierPoints(anomaly_score_raw) == Max(0, Min(10000, (500 - anomaly_score_raw) * 20))

min_samples_for_iforest == 10

\* the places of the multivariate path where a failure can be raised
FailPoints == {"none", "append", "normalize", "fit", "predict", "score"}
\* what IsolationForest.score_samples can return, in thousandths: [-1, 0)
RawScores == {-1000, -1}

\* a variant of the training guard that lets every buffer through
BufferNeverTooShort(buffer) == FALSE

\* the negation of: if len(self.feature_buffer) >= self.min_samples_for_iforest
BufferTooShort(buffer) == Len(buffer) < min_samples_for_iforest

\* the try block of detect_advanced, entered with the histories already appended:
\* the buffer it leaves, the failure raised in it (if any), whether the failure
\* escaped _normalize_features, and the value returned from inside it (if any)
MultivariatePath(buffer, features, cap, forest, fail, raw) ==
    LET appended == Append(buffer, features)
        trimmed == IF Len(appended) > cap
                   THEN SubSeq(appended, Len(appended) - cap + 1, Len(appended))
                   ELSE appended
    IN  IF fail = "append"
        THEN [feature_buffer |-> buffer, mv |-> "failed", failure |-> "append",
              returned |-> FALSE, score |-> 0]
        ELSE IF BufferTooShort(trimmed)
        THEN [feature_buffer |-> trimmed, mv |-> "short", failure |-> "none",
              returned |-> FALSE, score |-> 0]
        ELSE IF forest = "None" \/ fail \in {"fit", "predict", "score"}
        THEN [feature_buffer |-> trimmed, mv |-> "failed",
              failure |-> IF fail \in {"fit", "predict", "score"} THEN fail ELSE "fit",
              returned |-> FALSE, score |-> 0]
        ELSE \* a failure of the scaler is swallowed by _normalize_features, which
             \* hands back the raw array: fitting and scoring go on
             [feature_buffer |-> trimmed, mv |-> "scored",
              failure |-> IF fail = "normalize" THEN "normalize" ELSE "none",
              returned |-> TRUE, score |-> OutlierPoints(raw)]

\* a variant of the mode update that also gives up when the buffer is still short
ModeAfterShortBuffer(fallback, tried, mv) == fallback \/ (tried /\ mv # "scored")
\* a variant of the mode update whose except clause leaves the flag alone
ModeAfterKept(fallback, tried, mv) == fallback

\* self.use_fallback after the try block: set by the except clause, otherwise kept
ModeAfter(fallback, tried, mv) == fallback \/ (tried /\ mv = "failed")

\* detect_advanced on a detector state d (a record of the instance's fields)
detect_advanced(d, current_volume, sentiment_acceleration, cluster_growth_rate, fail, raw) ==
    LET vh == DequeAppend(d.volume_history, current_volume, d.window_size)
        sh == DequeAppend(d.sentiment_accel_history, sentiment_acceleration, d.window_size)
        gh == DequeAppend(d.growth_rate_history, cluster_growth_rate, d.window_size)
        features == <<current_volume, sentiment_acceleration, cluster_growth_rate>>
        tried == ~d.use_fallback /\ Len(vh) >= min_samples_for_iforest
        m == MultivariatePath(d.feature_buffer, features, d.window_size,
                              d.isolation_forest, fail, raw)
        fb == ModeAfter(d.use_fallback, tried, m.mv)
        zs == _detect_zscore(vh, current_volume, d.mean_volume, d.std_volume)
        appendedState == [d EXCEPT !.volume_history = vh,
                                   !.sentiment_accel_history = sh,
                                   !.growth_rate_history = gh]
    IN  IF tried /\ m.returned
        THEN [state |-> [appendedState EXCEPT !.feature_buffer = m.feature_buffer],
              score |-> m.score,
              path |-> [mv |-> m.mv, failure |-> m.failure, z |-> "none"]]
        ELSE [state |-> [appendedState EXCEPT
                            !.feature_buffer = IF tried THEN m.feature_buffer ELSE @,
                            !.use_fallback = fb,
                            !.mean_volume = zs.mean_volume,
                            !.std_volume = zs.std_volume],
              score |-> zs.score,
              path |-> [mv |-> IF tried THEN m.mv ELSE "skipped",
                        failure |-> IF tried THEN m.failure ELSE "none",
                        z |-> zs.z]]

----------------------------------------------------------------------------
(* ClusteringService.cluster *)

\* np.zeros(len(embeddings), dtype=int)
ZeroLabels(n) == [i \in 1..n |-> 0]

MinClusterInput == 3

\* cluster on n embeddings: the clusterer is run only on 3 or more; `provided` is
\* what fit_predict hands back and `clusterer_fails` whether it raises instead
cluster(n, provided, clusterer_fails) ==
    IF n < MinClusterInput THEN [labels |-> ZeroLabels(n), n_clusters |-> 0]
    ELSE IF clusterer_fails THEN [labels |-> ZeroLabels(n), n_clusters |-> 0]
    ELSE [labels |-> provided,
          n_clusters |-> Cardinality({provided[i] : i \in DOMAIN provided} \ {NoiseLabel})]

----------------------------------------------------------------------------
(* EscalationService; its scores are rationals <<n, d>> *)

SentimentWindow == 20

RECURSIVE RatSum(_)
RatSum(rs) == IF rs = <<>> THEN <<0, 1>> ELSE RatAdd(Head(rs), RatSum(Tail(rs)))

\* the last k elements of s (all of s when it is shorter): list(s)[-k:]
LastOf(s, k) == SubSeq(s, Max(1, Len(s) - k + 1), Len(s))

\* a variant of the guard that lets every batch through
NeverTooFewSentiments(sentiments) == FALSE

\* if len(sentiments) < 2
TooFewSentiments(sentiments) == Len(sentiments) < 2

\* compute_sentiment_acceleration on the window `history` (tenths): the window it
\* leaves, the value returned and the branch taken
compute_sentiment_acceleration(history, sentiments) ==
    LET h == DequeExtend(history, sentiments, SentimentWindow)
        L == Len(h)
        recent == LastOf(h, 10)
        first_derivative == [i \in 1..(Min(5, L) - 1) |-> h[L - i + 1] - h[L - i]]
    IN  IF TooFewSentiments(sentiments)
        THEN [sentiment_history |-> history, value |-> <<0, 1>>, branch |-> "short"]
        ELSE IF L >= 5
        THEN [sentiment_history |-> h,
              value |-> RatMin(<<100, 1>>,
                               <<Abs(SumSeq(first_derivative)) * 200,
                                 10 * Len(first_derivative)>>),
              branch |-> "delta"]
        ELSE IF SumSeq(recent) < -3 * Len(recent)
        THEN [sentiment_history |-> h,
              value |-> RatMin(<<100, 1>>, <<Abs(SumSeq(recent)) * 100, 10 * Len(recent)>>),
              branch |-> "negative"]
        ELSE [sentiment_history |-> h, value |-> <<0, 1>>, branch |-> "zero"]

\* float(np.mean([c.get('growthRate', 0) for c in clusters]))
compute_cluster_growth_rate(clusters) ==
    IF clusters = <<>> THEN <<0, 1>>
    ELSE LET total == RatSum([i \in DOMAIN clusters |-> clusters[i].growthRate])
         IN  <<total[1], total[2] * Len(clusters)>>

\* a variant of the viral test that counts a growth rate of exactly 50
IsViralFromFifty(growthRate) == RatLe(<<50, 1>>, growthRate)

\* c.get('growthRate', 0) > 50
IsViral(growthRate) == RatLt(<<50, 1>>, growthRate)

\* (total_posts / volume) * 30, volume # 0, with a positive denominator
SizeRatio(total_posts, volume) ==
    IF volume > 0 THEN <<total_posts * 30, volume>> ELSE <<-(total_posts * 30), -volume>>

compute_narrative_spread_speed(clusters, volume) ==
    IF clusters = <<>> \/ volume = 0 THEN <<0, 1>>
    ELSE LET num_clusters == Len(clusters)
             total_posts == SumSeq([i \in DOMAIN clusters |-> clusters[i].size])
             cluster_factor == Min(50, num_clusters * 10)
             size_factor == RatMin(<<30, 1>>, SizeRatio(total_posts, volume))
             viral_factor ==
                 Min(20, 5 * Cardinality({i \in DOMAIN clusters :
                                             IsViral(clusters[i].growthRate)}))
         IN  RatAdd(RatAdd(<<cluster_factor, 1>>, size_factor), <<viral_factor, 1>>)

compute_metrics(history, sentiments, clusters, current_volume) ==
    LET acc == compute_sentiment_acceleration(history, sentiments)
    IN  [sentiment_history |-> acc.sentiment_history,
         branch |-> acc.branch,
         metrics |-> [sentimentAcceleration |-> acc.value,
                      clusterGrowthRate |-> compute_cluster_growth_rate(clusters),
                      narrativeSpreadSpeed |->
                          compute_narrative_spread_speed(clusters, current_volume)]]

----------------------------------------------------------------------------
(* Bounds and input domains of the model *)

\* the longest batch (and the longest label sequence)
MaxPosts == 3
\* the labels the clustering provider hands out
Labels == {NoiseLabel, 0, 1}

CountOf(labels, label) == Cardinality({i \in DOMAIN labels : labels[i] = label})

\* the batches of n texts that are submitted: the two texts alternating, either first
TextBatches(n) ==
    {[i \in 1..n |-> IF i % 2 = 1 THEN first ELSE CHOOSE t \in Texts : t # first] :
        first \in Texts}

----------------------------------------------------------------------------
(* More bounds and input domains *)

\* the window_size the detector is constructed with
WindowSize == 10
\* the /analyze requests that are served
MaxRequests == 2
\* the longest cluster list compute_narrative_spread_speed is called with
MaxClusters == 6
\* the longest list of texts _extract_keywords is called with
MaxTexts == 3
\* the sentiments the window is let to hold
MaxSentiments == 6
\* the spike observations admitted between two resets
MaxSpikes == 1
\* the longest input of detect_batch
MaxBatch == 2

\* what detect_advanced is fed: <<volume, sentiment acceleration, growth rate>>
Quiet == <<95, 0, 0>>
Spike == <<120, 40, 200>>
Observations == {Quiet, Spike}
\* the volumes detect and detect_simple are asked about
ProbeVolumes == {95, 100, 145}
\* where a constructor call of __init__ or reset can fail
BuildFailures == {"none", "scaler", "forest"}

----------------------------------------------------------------------------
(* The state after the module-level constructors have run *)

\* the fields AdvancedAnomalyService.__init__ leaves, given whether sklearn was
\* importable and which constructor (if any) raised
NewDetector(sklearn, size, fail) ==
    [window_size |-> size,
     volume_history |-> <<>>,
     sentiment_accel_history |-> <<>>,
     growth_rate_history |-> <<>>,
     mean_volume |-> <<0, 1>>,
     std_volume |-> <<1, 1>>,
     scaler |-> IF sklearn /\ fail # "scaler" THEN "StandardScaler" ELSE "None",
     isolation_forest |-> IF sklearn /\ fail = "none" THEN "IsolationForest" ELSE "None",
     feature_buffer |-> <<>>,
     use_fallback |-> ~sklearn \/ fail # "none"]

\* the detector's fields as one record, and back
Detector ==
    [window_size |-> window_size,
     volume_history |-> volume_history,
     sentiment_accel_history |-> sentiment_accel_history,
     growth_rate_history |-> growth_rate_history,
     mean_volume |-> mean_volume,
     std_volume |-> std_volume,
     scaler |-> scaler,
     isolation_forest |-> isolation_forest,
     feature_buffer |-> feature_buffer,
     use_fallback |-> use_fallback]

SetDetector(d) ==
    /\ window_size' = d.window_size
    /\ volume_history' = d.volume_history
    /\ sentiment_accel_history' = d.sentiment_accel_history
    /\ growth_rate_history' = d.growth_rate_history
    /\ mean_volume' = d.mean_volume
    /\ std_volume' = d.std_volume
    /\ scaler' = d.scaler
    /\ isolation_forest' = d.isolation_forest
    /\ feature_buffer' = d.feature_buffer
    /\ use_fallback' = d.use_fallback

Init ==
    /\ previous_sizes = [k \in {} |-> 0]
    /\ seen_size = [l \in Labels \ {NoiseLabel} |-> 0]
    /\ sentiment_history = <<>>
    /\ op = "init"
    /\ args = <<>>
    /\ result = <<>>
    /\ raised = "none"
    /\ path = <<>>
    /\ spikes = 0
    /\ served = 0
    /\ called = <<>>
    /\ tasks = <<>>
    /\ running = 0
    /\ SKLEARN_AVAILABLE \in BOOLEAN
    /\ \E fail \in BuildFailures :
         LET d == NewDetector(SKLEARN_AVAILABLE, WindowSize, fail)
         IN  /\ window_size = d.window_size
             /\ volume_history = d.volume_history
             /\ sentiment_accel_history = d.sentiment_accel_history
             /\ growth_rate_history = d.growth_rate_history
             /\ mean_volume = d.mean_volume
             /\ std_volume = d.std_volume
             /\ scaler = d.scaler
             /\ isolation_forest = d.isolation_forest
             /\ feature_buffer = d.feature_buffer
             /\ use_fallback = d.use_fallback

\* the service as it is deployed, scikit-learn installed and the models built
InitBuilt == Init /\ SKLEARN_AVAILABLE /\ ~use_fallback

----------------------------------------------------------------------------
(* clustering_service.get_cluster_info called on its own, with sequences of equal
   length *)

GetClusterInfo ==
    \E n \in 0..MaxPosts :
      \E labels \in [1..n -> Labels], texts \in TextBatches(n) :
        \E sentiments \in {[i \in 1..n |-> SentimentOf[texts[i]]]} :
          \E r \in {get_cluster_info(labels, texts, sentiments, previous_sizes)} :
            /\ previous_sizes' = r.previous_sizes
            /\ seen_size' = [l \in Labels \ {NoiseLabel} |->
                                IF CountOf(labels, l) > 0 THEN CountOf(labels, l)
                                ELSE seen_size[l]]
            /\ op' = "get_cluster_info"
            /\ args' = [labels |-> labels, texts |-> texts, sentiments |-> sentiments]
            /\ result' = r.clusters
            /\ raised' = r.raised
            /\ path' = <<>>
            /\ UNCHANGED <<detectorVars, spikes, escalationVars, served, called, loopVars>>

NextCluster == GetClusterInfo

SpecCluster == InitBuilt /\ [][NextCluster]_vars

----------------------------------------------------------------------------
(* clustering_service.get_cluster_info called on its own, with sequences of any
   lengths *)

\* the lengths of texts and sentiments tried with n labels: both n, or one of them
\* one less or one more
LengthPairs(n) ==
    {p \in {<<n, n>>, <<n - 1, n>>, <<n + 1, n>>, <<n, n - 1>>, <<n, n + 1>>} :
        p[1] \in 0..MaxPosts /\ p[2] \in 0..MaxPosts}

GetClusterInfoAnyLengths ==
    \E n \in 0..MaxPosts, m \in 0..MaxPosts, k \in 0..MaxPosts :
      /\ <<m, k>> \in LengthPairs(n)
      /\ \E labels \in [1..n -> Labels], texts \in TextBatches(m) :
          \E sentiments \in {[i \in 1..k |-> IF i % 2 = 1 THEN -9 ELSE 9]} :
            \E r \in {get_cluster_info(labels, texts, sentiments, previous_sizes)} :
              /\ previous_sizes' = r.previous_sizes
              /\ seen_size' = [l \in Labels \ {NoiseLabel} |->
                                  IF /\ CountOf(labels, l) > 0
                                     /\ ClusterId(l) \in DOMAIN r.previous_sizes
                                  THEN r.previous_sizes[ClusterId(l)] ELSE seen_size[l]]
              /\ op' = "get_cluster_info"
              /\ args' = [labels |-> labels, texts |-> texts, sentiments |-> sentiments]
              /\ result' = r.clusters
              /\ raised' = r.raised
              /\ path' = <<>>
              /\ UNCHANGED <<detectorVars, spikes, escalationVars, served, called, loopVars>>

NextClusterCalls == GetClusterInfoAnyLengths

SpecClusterCalls == InitBuilt /\ [][NextClusterCalls]_vars

\* the three sequences of the last get_cluster_info call have one length
EqualLengths ==
    /\ Len(args.labels) = Len(args.texts)
    /\ Len(args.labels) = Len(args.sentiments)

\* C24 (as stated): get_cluster_info raises exactly when the lengths of its three
\* sequences differ, and returns no summaries then.
MismatchedLengthsRaise ==
    op = "get_cluster_info" =>
        /\ EqualLengths => raised = "none"
        /\ ~EqualLengths => raised # "none" /\ result = <<>>

----------------------------------------------------------------------------
(* clustering_service._extract_keywords called on its own *)

ExtractKeywords ==
    \E n \in 0..MaxTexts :
      \E texts \in [1..n -> KeywordTexts] :
        /\ op' = "_extract_keywords"
        /\ args' = texts
        /\ result' = _extract_keywords(texts)
        /\ raised' = "none"
        /\ path' = <<>>
        /\ UNCHANGED <<detectorVars, spikes, clusterVars, escalationVars, served, called, loopVars>>

NextKeywords == ExtractKeywords

SpecKeywords == InitBuilt /\ [][NextKeywords]_vars

\* word occurs in text at some position
OccursIn(word, text) ==
    \E i \in 1..(Len(text) - Len(word) + 1) : SubSeq(text, i, i + Len(word) - 1) = word

\* C16: _extract_keywords returns at most 5 keywords; none is a stop word, none is
\* shorter than 4 letters, and each is made of lowercase letters and occurs in the
\* lowercased text of one of the cluster's texts.
KeywordsAreFewAndClean ==
    op = "_extract_keywords" =>
        /\ Len(result) <= 5
        /\ \A k \in DOMAIN result :
              /\ result[k] \notin {"this", "that", "with", "from", "have", "been", "will",
                                    "just", "about"}
              /\ Len(result[k]) >= 4
              /\ \A i \in 1..Len(result[k]) : IndexIn(CharAt(result[k], i), LowerLetters) > 0
              /\ \E t \in DOMAIN args : OccursIn(result[k], Lower(args[t]))

\* the counted tokens of the texts in the order the scan meets them
RECURSIVE ScanOf(_)
ScanOf(texts) == IF texts = <<>> THEN <<>> ELSE Words(Head(texts)) \o ScanOf(Tail(texts))

Frequency(w, scan) == Cardinality({i \in DOMAIN scan : scan[i] = w})
FirstSeen(w, scan) == CHOOSE i \in DOMAIN scan : scan[i] = w /\ \A j \in 1..(i - 1) : scan[j] # w
\* a ranks before b: more frequent, or as frequent and met first
RanksBefore(a, b, scan) ==
    \/ Frequency(a, scan) > Frequency(b, scan)
    \/ Frequency(a, scan) = Frequency(b, scan) /\ FirstSeen(a, scan) < FirstSeen(b, scan)

\* C23: the keywords are distinct tokens in descending order of their frequency over
\* all the texts together, tokens of equal frequency in the order the scan first met
\* them, and they are the first 5 of that order: every token left out ranks after
\* every keyword returned.
KeywordsByFrequencyThenFirstSeen ==
    op = "_extract_keywords" =>
        \E scan \in {ScanOf(args)} :
          \E tokens \in {{scan[i] : i \in DOMAIN scan}} :
            /\ Len(result) = Min(5, Cardinality(tokens))
            /\ \A i \in DOMAIN result : result[i] \in tokens
            /\ \A i, j \in DOMAIN result : i < j => RanksBefore(result[i], result[j], scan)
            /\ \A w \in tokens \ {result[i] : i \in DOMAIN result} :
                  \A i \in DOMAIN result : RanksBefore(result[i], w, scan)

\* three texts: the most frequent token is met last, three tokens met once keep the
\* order of the scan, and two more tokens met once are cut
TiesKeepScanOrder ==
    /\ op = "_extract_keywords"
    /\ args = <<Text3, Text4, Text5>>
    /\ result = <<"rain", "burning", "fire", "wind", "fast">>
    /\ Frequency("data", ScanOf(args)) = 1
    /\ Frequency("dust", ScanOf(args)) = 1

\* two texts with six counted words between them, stop words and a digit-joined word
\* among the rest: five keywords come back, the most frequent first
SixWordsCutToFive ==
    /\ op = "_extract_keywords"
    /\ args = <<Text1, Text2>>
    /\ result = <<"fire", "plant", "spreading", "fast", "test">>

----------------------------------------------------------------------------
(* Properties of the cluster statistics tracker *)

\* the label a cluster id stands for
LabelOf(cluster_id) == CHOOSE l \in Labels : ClusterId(l) = cluster_id

\* C2: the growthRate reported for a cluster id of size S is (S - P) / max(P, 1) * 100,
\* P being the size the id had in the most recent earlier call that contained it (0 if
\* there was none, which gives S * 100); after the call the memory holds S for the id.
GrowthAgainstLastAppearance ==
    [][(op' = "get_cluster_info" /\ raised' = "none") =>
          \A i \in DOMAIN result' :
             LET S == result'[i].size
                 P == seen_size[LabelOf(result'[i].clusterId)]
             IN  /\ RatEq(result'[i].growthRate, <<(S - P) * 100, IF P > 1 THEN P ELSE 1>>)
                 /\ P = 0 => RatEq(result'[i].growthRate, <<S * 100, 1>>)
                 /\ previous_sizes'[result'[i].clusterId] = S]_vars

\* a cluster that had two posts in its last appearance comes back with one: -50
ClusterShrankByHalf ==
    /\ op = "get_cluster_info"
    /\ \E i \in DOMAIN result :
          /\ result[i].size = 1
          /\ RatEq(result[i].growthRate, <<-50, 1>>)
          /\ previous_sizes[result[i].clusterId] = 1

\* C3: get_cluster_info returns exactly one summary per distinct label other than -1,
\* named cluster-<label>, its size the number of positions carrying the label (at
\* least 1); label -1 gets no summary and no memory entry; no labels, no summaries.
OneSummaryPerCluster ==
    (op = "get_cluster_info" /\ raised = "none") =>
        LET labels == args.labels
            kept == {labels[i] : i \in DOMAIN labels} \ {-1}
        IN  /\ Len(result) = Cardinality(kept)
            /\ \A l \in kept :
                  \E i \in DOMAIN result :
                     /\ result[i].clusterId = "cluster-" \o ToString(l)
                     /\ result[i].size = CountOf(labels, l)
                     /\ result[i].size >= 1
            /\ \A i \in DOMAIN result : result[i].clusterId # "cluster--1"
            /\ "cluster--1" \notin DOMAIN previous_sizes
            /\ labels = <<>> => result = <<>>

\* a batch with an unclustered post and two clusters yields two summaries
NoiseAmongTwoClusters ==
    /\ op = "get_cluster_info"
    /\ args.labels = <<-1, 0, 1>>
    /\ Len(result) = 2

----------------------------------------------------------------------------
(* The operations of anomaly_service *)

IsSpike(volume) == volume # Quiet[1]
SpikeCount(volumes) == Cardinality({i \in DOMAIN volumes : IsSpike(volumes[i])})

\* detect: "uses z-score only", on the history as it stands
Detect ==
    \E current_volume \in ProbeVolumes :
        \E zs \in {_detect_zscore(volume_history, current_volume, mean_volume, std_volume)} :
            /\ mean_volume' = zs.mean_volume
            /\ std_volume' = zs.std_volume
            /\ op' = "detect"
            /\ args' = <<current_volume>>
            /\ result' = zs.score
            /\ raised' = "none"
            /\ path' = <<[mv |-> "skipped", failure |-> "none", z |-> zs.z]>>
            /\ UNCHANGED <<SKLEARN_AVAILABLE, window_size, volume_history,
                           sentiment_accel_history, growth_rate_history, scaler,
                           isolation_forest, feature_buffer, use_fallback, spikes,
                           clusterVars, escalationVars, served, called, loopVars>>

DetectSimple ==
    \E current_volume \in ProbeVolumes :
        \E zs \in {_detect_zscore(volume_history, current_volume, mean_volume, std_volume)} :
            /\ mean_volume' = zs.mean_volume
            /\ std_volume' = zs.std_volume
            /\ op' = "detect_simple"
            /\ args' = <<current_volume>>
            /\ result' = zs.score
            /\ raised' = "none"
            /\ path' = <<[mv |-> "skipped", failure |-> "none", z |-> zs.z]>>
            /\ UNCHANGED <<SKLEARN_AVAILABLE, window_size, volume_history,
                           sentiment_accel_history, growth_rate_history, scaler,
                           isolation_forest, feature_buffer, use_fallback, spikes,
                           clusterVars, escalationVars, served, called, loopVars>>

\* whether the next detect_advanced on d enters the try block, and whether it gets
\* as far as fitting
EntersTry(d) ==
    /\ ~d.use_fallback
    /\ Min(Len(d.volume_history) + 1, d.window_size) >= min_samples_for_iforest
ReachesFit(d) ==
    /\ EntersTry(d)
    /\ Min(Len(d.feature_buffer) + 1, d.window_size) >= min_samples_for_iforest

\* the failures and raw scores that can occur in the next detect_advanced on d
FailChoices(d) ==
    IF ReachesFit(d) THEN FailPoints ELSE IF EntersTry(d) THEN {"none", "append"} ELSE {"none"}
RawChoices(d) == IF ReachesFit(d) THEN RawScores ELSE {-500}

DetectAdvanced ==
    \E obs \in {o \in Observations : spikes + SpikeCount(<<o[1]>>) <= MaxSpikes},
       d \in {Detector} :
      \E fail \in FailChoices(d), raw \in RawChoices(d) :
        \E r \in {detect_advanced(d, obs[1], obs[2], obs[3], fail, raw)} :
            /\ spikes + SpikeCount(<<obs[1]>>) <= MaxSpikes
            /\ SetDetector(r.state)
            /\ spikes' = spikes + SpikeCount(<<obs[1]>>)
            /\ op' = "detect_advanced"
            /\ args' = obs
            /\ result' = r.score
            /\ raised' = "none"
            /\ path' = <<r.path>>
            /\ UNCHANGED <<SKLEARN_AVAILABLE, clusterVars, escalationVars, served, called, loopVars>>

\* the loop of detect_batch from element i on; a missing optional value is 0
RECURSIVE BatchLoop(_, _, _, _, _, _, _, _, _)
BatchNext(r, i, volumes, accels, rates, fails, raw, scores, paths) ==
    BatchLoop(r.state, i + 1, volumes, accels, rates, fails, raw,
              Append(scores, r.score), Append(paths, r.path))
BatchLoop(d, i, volumes, accels, rates, fails, raw, scores, paths) ==
    IF i > Len(volumes) THEN [state |-> d, scores |-> scores, paths |-> paths]
    ELSE CHOOSE out \in
             {BatchNext(r, i, volumes, accels, rates, fails, raw, scores, paths) :
                 r \in {detect_advanced(d, volumes[i],
                                        IF i <= Len(accels) THEN accels[i] ELSE 0,
                                        IF i <= Len(rates) THEN rates[i] ELSE 0,
                                        fails[i], raw)}} : TRUE

\* an optional list argument: None (as [0.0] * len(volumes)), or a list that is one
\* element short of the volumes
OptionalList(volumes, field, shape) ==
    LET n == IF shape = "None" THEN 0 ELSE Max(Len(volumes) - 1, 0)
    IN  [i \in 1..n |-> IF IsSpike(volumes[i]) THEN Spike[field] ELSE Quiet[field]]

detect_batch(d, volumes, accels, rates, fails, raw) ==
    BatchLoop(d, 1, volumes, accels, rates, fails, raw, <<>>, <<>>)

\* the failures a batch of n elements can meet on d: none, or one at one element that
\* enters the try block
BatchFailures(d, n) ==
    {[i \in 1..n |-> "none"]} \cup
    (IF d.use_fallback \/ Len(d.volume_history) + n < min_samples_for_iforest THEN {}
     ELSE {[i \in 1..n |-> IF i = at THEN fail ELSE "none"] :
              at \in 1..n,
              fail \in IF Len(d.feature_buffer) + n < min_samples_for_iforest
                       THEN {"append"} ELSE FailPoints \ {"none"}})
BatchRawChoices(d, n) ==
    IF ~d.use_fallback /\ Len(d.feature_buffer) + n >= min_samples_for_iforest
    THEN RawScores ELSE {-500}

DetectBatch ==
    \E n \in 0..MaxBatch, d \in {Detector} :
      \E volumes \in {v \in [1..n -> {Quiet[1], Spike[1]}] :
                         spikes + SpikeCount(v) <= MaxSpikes},
         shape \in {"None", "short"},
         fails \in BatchFailures(d, n), raw \in BatchRawChoices(d, n) :
        \E r \in {detect_batch(d, volumes, OptionalList(volumes, 2, shape),
                               OptionalList(volumes, 3, shape), fails, raw)} :
            /\ spikes + SpikeCount(volumes) <= MaxSpikes
            /\ SetDetector(r.state)
            /\ spikes' = spikes + SpikeCount(volumes)
            /\ op' = "detect_batch"
            /\ args' = [volumes |-> volumes, shape |-> shape]
            /\ result' = r.scores
            /\ raised' = "none"
            /\ path' = r.paths
            /\ UNCHANGED <<SKLEARN_AVAILABLE, clusterVars, escalationVars, served, called, loopVars>>

get_stats(d, sklearn) ==
    [mean_volume |-> d.mean_volume,
     std_volume |-> d.std_volume,
     history_size |-> Len(d.volume_history),
     using_isolation_forest |-> ~d.use_fallback,
     sklearn_available |-> sklearn]

GetStats ==
    /\ op' = "get_stats"
    /\ args' = <<>>
    /\ result' = get_stats(Detector, SKLEARN_AVAILABLE)
    /\ raised' = "none"
    /\ path' = <<>>
    /\ UNCHANGED <<detectorVars, spikes, clusterVars, escalationVars, served, called, loopVars>>

\* a variant of reset that clears the windows but leaves the statistics as they are
resetKeepsStatistics(d, sklearn, fail) ==
    [d EXCEPT !.volume_history = <<>>,
              !.sentiment_accel_history = <<>>,
              !.growth_rate_history = <<>>,
              !.feature_buffer = <<>>]

\* reset: the windows are cleared; the models are rebuilt only when the detector is
\* not in fallback, and a constructor that raises there sets the fallback
reset(d, sklearn, fail) ==
    LET cleared == [d EXCEPT !.volume_history = <<>>,
                             !.sentiment_accel_history = <<>>,
                             !.growth_rate_history = <<>>,
                             !.feature_buffer = <<>>,
                             !.mean_volume = <<0, 1>>,
                             !.std_volume = <<1, 1>>]
    IN  IF ~d.use_fallback /\ sklearn
        THEN [cleared EXCEPT
                !.scaler = IF fail = "scaler" THEN @ ELSE "StandardScaler",
                !.isolation_forest = IF fail = "none" THEN "IsolationForest" ELSE @,
                !.use_fallback = fail # "none"]
        ELSE cleared

\* reset takes no argument; args records the environment's choice of the constructor
\* that would raise if it were called
Reset ==
    \E fail \in BuildFailures :
      \E d \in {reset(Detector, SKLEARN_AVAILABLE, fail)} :
        /\ SetDetector(d)
        /\ spikes' = 0
        /\ op' = "reset"
        /\ args' = [constructors |-> fail]
        /\ result' = "None"
        /\ raised' = "none"
        /\ path' = <<>>
        /\ UNCHANGED <<SKLEARN_AVAILABLE, clusterVars, escalationVars, served, called, loopVars>>

NextAnomaly == Detect \/ DetectSimple \/ DetectAdvanced \/ DetectBatch \/ GetStats \/ Reset

SpecAnomaly == Init /\ [][NextAnomaly]_vars

----------------------------------------------------------------------------
(* escalation_service.compute_narrative_spread_speed called on its own *)

\* the cluster lists it is called with: k summaries of one size and growth rate
\* (only the size and the growthRate of a summary are read)
ClusterLists ==
    {[i \in 1..k |-> [size |-> size, growthRate |-> <<growth, 1>>]] :
        k \in 0..MaxClusters, size \in {1, 10}, growth \in {-50, 50, 80}}
\* the volumes it is called with
SpreadVolumes == {-1, 0, 1, 10}

ComputeNarrativeSpreadSpeed ==
    \E clusters \in ClusterLists, volume \in SpreadVolumes :
        /\ op' = "compute_narrative_spread_speed"
        /\ args' = [clusters |-> clusters, volume |-> volume]
        /\ result' = compute_narrative_spread_speed(clusters, volume)
        /\ raised' = "none"
        /\ path' = <<>>
        /\ UNCHANGED <<detectorVars, spikes, clusterVars, escalationVars, served, called, loopVars>>

NextEscalation == ComputeNarrativeSpreadSpeed

SpecEscalation == InitBuilt /\ [][NextEscalation]_vars

\* C12: compute_narrative_spread_speed returns 0 for no clusters or volume 0, and
\* otherwise min(50, 10 * clusters) + min(30, sizes / volume * 30) + min(20, 5 * the
\* clusters whose growthRate is strictly above 50).
SpreadSpeedIsSumOfFactors ==
    op = "compute_narrative_spread_speed" =>
        LET clusters == args.clusters
            volume == args.volume
            sizes == SumSeq([i \in DOMAIN clusters |-> clusters[i].size])
            viral == Cardinality({i \in DOMAIN clusters :
                                     clusters[i].growthRate[1] > 50 * clusters[i].growthRate[2]})
            counted == (IF 10 * Len(clusters) < 50 THEN 10 * Len(clusters) ELSE 50)
                       + (IF 5 * viral < 20 THEN 5 * viral ELSE 20)
        IN  IF clusters = <<>> \/ volume = 0 THEN result[1] = 0
            ELSE IF volume > 0 /\ sizes >= volume
                 THEN RatEq(result, <<counted + 30, 1>>)
                 ELSE result[1] * volume = (counted * volume + 30 * sizes) * result[2]

\* one cluster of growthRate 80 and size 10 at volume 10: 10 + 30 + 5 = 45
SpreadSpeedFortyFive ==
    /\ op = "compute_narrative_spread_speed"
    /\ args = [clusters |-> <<[size |-> 10, growthRate |-> <<80, 1>>]>>, volume |-> 10]
    /\ RatEq(result, <<45, 1>>)

----------------------------------------------------------------------------
(* escalation_service.compute_sentiment_acceleration and compute_metrics called on
   their own *)

\* the sentiment lists they are called with (tenths)
SentimentBatches ==
    {<<>>, <<-9>>, <<9>>, <<-9, 9>>, <<9, -9>>, <<-9, -9>>, <<-9, 9, -9>>, <<9, -9, 9>>}
\* the cluster lists compute_metrics is called with
MetricClusters ==
    {<<>>,
     <<[size |-> 2, growthRate |-> <<200, 1>>]>>,
     <<[size |-> 1, growthRate |-> <<-50, 1>>], [size |-> 2, growthRate |-> <<100, 1>>]>>}
\* the volumes compute_metrics is called with
MetricVolumes == {0, 3}

ComputeSentimentAcceleration ==
    \E sentiments \in SentimentBatches :
        /\ Len(sentiment_history) + Len(sentiments) <= MaxSentiments
        /\ \E r \in {compute_sentiment_acceleration(sentiment_history, sentiments)} :
              /\ sentiment_history' = r.sentiment_history
              /\ op' = "compute_sentiment_acceleration"
              /\ args' = [sentiments |-> sentiments]
              /\ result' = r.value
              /\ raised' = "none"
              /\ path' = <<r.branch>>
              /\ UNCHANGED <<detectorVars, spikes, clusterVars, served, called, loopVars>>

ComputeMetrics ==
    \E sentiments \in SentimentBatches, clusters \in MetricClusters,
       current_volume \in MetricVolumes :
        /\ Len(sentiment_history) + Len(sentiments) <= MaxSentiments
        /\ \E r \in {compute_metrics(sentiment_history, sentiments, clusters,
                                      current_volume)} :
              /\ sentiment_history' = r.sentiment_history
              /\ op' = "compute_metrics"
              /\ args' = [sentiments |-> sentiments, clusters |-> clusters,
                          current_volume |-> current_volume]
              /\ result' = r.metrics
              /\ raised' = "none"
              /\ path' = <<r.branch>>
              /\ UNCHANGED <<detectorVars, spikes, clusterVars, served, called, loopVars>>

NextMetrics == ComputeSentimentAcceleration \/ ComputeMetrics

SpecMetrics == InitBuilt /\ [][NextMetrics]_vars

\* compute_metrics called for as long as one likes, so that the window fills up and
\* evicts: the sentiment lists of such a stream (tenths), no clusters
StreamBatches == {<<>>, <<9>>, <<-9, 9>>, <<-9, -9, -9>>}

ComputeMetricsStream ==
    \E sentiments \in StreamBatches :
        \E r \in {compute_metrics(sentiment_history, sentiments, <<>>, Len(sentiments))} :
            /\ sentiment_history' = r.sentiment_history
            /\ op' = "compute_metrics"
            /\ args' = [sentiments |-> sentiments, clusters |-> <<>>,
                        current_volume |-> Len(sentiments)]
            /\ result' = r.metrics
            /\ raised' = "none"
            /\ path' = <<r.branch>>
            /\ UNCHANGED <<detectorVars, spikes, clusterVars, served, called, loopVars>>

NextStream == ComputeMetricsStream

SpecStream == InitBuilt /\ [][NextStream]_vars

\* C25: over compute_metrics calls the sentiment window never gets shorter and
\* never holds more than 20 values; once it holds at least 5, a call with at least
\* 2 sentiments returns the value computed from the last deltas, and no call
\* takes the strongly-negative-mean branch any more.
WindowOnlyFillsUp ==
    [][op' = "compute_metrics" =>
          /\ Len(sentiment_history') >= Len(sentiment_history)
          /\ Len(sentiment_history') <= 20
          /\ Len(sentiment_history) >= 5 =>
                /\ path'[1] # "negative"
                /\ Len(args'.sentiments) >= 2 =>
                      \E h \in {sentiment_history'} :
                        /\ path'[1] = "delta"
                        /\ RatEq(result'.sentimentAcceleration,
                                 RatMin(<<100, 1>>,
                                        <<Abs(h[Len(h)] - h[Len(h) - 4]) * 200, 40>>))
      ]_vars

\* a call on a full window whose last 10 values are all -0.9: the mean is far below
\* -0.3, yet the value returned is the one of the deltas, 0
FullNegativeWindowScoredByDeltas ==
    /\ op = "compute_metrics"
    /\ Len(args.sentiments) >= 2
    /\ Len(sentiment_history) = SentimentWindow
    /\ \A i \in 11..20 : sentiment_history[i] = -9
    /\ sentiment_history[1] = 9
    /\ path = <<"delta">>
    /\ RatEq(result.sentimentAcceleration, <<0, 1>>)

\* the sentimentAcceleration the last call returned
AccelerationReturned ==
    IF op = "compute_metrics" THEN result.sentimentAcceleration ELSE result
MetricOps == {"compute_sentiment_acceleration", "compute_metrics"}

\* C11: compute_metrics with no sentiments and no clusters returns three zeros and
\* leaves the sentiment window as it was, whatever the window and the volume.
EmptyMetricsAreZero ==
    [][(op' = "compute_metrics" /\ args'.sentiments = <<>> /\ args'.clusters = <<>>) =>
          /\ result'.sentimentAcceleration[1] = 0
          /\ result'.clusterGrowthRate[1] = 0
          /\ result'.narrativeSpreadSpeed[1] = 0
          /\ sentiment_history' = sentiment_history]_vars

\* the empty call on a window of five values whose ends differ
EmptyMetricsOnTrendingWindow ==
    /\ op = "compute_metrics"
    /\ args.sentiments = <<>> /\ args.clusters = <<>>
    /\ sentiment_history = <<9, -9, -9, 9, -9>>
    /\ result.sentimentAcceleration[1] = 0

\* the sum of the absolute first differences among the last 5 entries of the window
AbsoluteDeltas ==
    LET h == sentiment_history
        L == Len(h)
    IN  SumSeq([i \in 1..4 |-> Abs(h[L - i + 1] - h[L - i])])

\* C13 (as stated): with at least 5 values in the window after a batch of 2 or more
\* sentiments, sentimentAcceleration is min(100, 200 * the mean of the absolute
\* values of the 4 first differences among the last 5 entries).
AccelerationIsMeanAbsoluteDelta ==
    (op \in MetricOps /\ Len(args.sentiments) >= 2 /\ Len(sentiment_history) >= 5) =>
        RatEq(AccelerationReturned,
              IF 5 * AbsoluteDeltas < 100 THEN <<5 * AbsoluteDeltas, 1>> ELSE <<100, 1>>)

\* C18 (as stated): every input sentiment is appended to the window, a batch of one
\* sentiment included.
EverySentimentIsRecorded ==
    [][op' \in MetricOps =>
          sentiment_history' =
              DequeExtend(sentiment_history, args'.sentiments, SentimentWindow)]_vars

----------------------------------------------------------------------------
(* routers/analyze.analyze_posts: one request handled from start to end (the handler
   has no await, so nothing of another request runs in between) *)

\* the response of the empty batch
EmptyResponse ==
    [enrichedPosts |-> <<>>,
     clusters |-> <<>>,
     metrics |-> [sentimentAcceleration |-> <<0, 1>>, clusterGrowthRate |-> <<0, 1>>,
                  anomalyScore |-> 0, narrativeSpreadSpeed |-> <<0, 1>>]]

\* the handler on a non-empty batch: the states of the three services it leaves and
\* the response
analyze_posts(texts, provided, clusterer_fails, mem, d, history) ==
    LET sentiments == [i \in DOMAIN texts |-> SentimentOf[texts[i]]]
        labels == cluster(Len(texts), provided, clusterer_fails).labels
        info == get_cluster_info(labels, texts, sentiments, mem)
        current_volume == Len(texts)
        zs == _detect_zscore(d.volume_history, current_volume, d.mean_volume, d.std_volume)
        esc == compute_metrics(history, sentiments, info.clusters, current_volume)
    IN  [labels |-> labels,
         called |-> <<"embedding_service.encode", "sentiment_service.analyze",
                      "clustering_service.cluster", "clustering_service.get_cluster_info",
                      "anomaly_service.detect", "escalation_service.compute_metrics">>,
         previous_sizes |-> info.previous_sizes,
         state |-> [d EXCEPT !.mean_volume = zs.mean_volume, !.std_volume = zs.std_volume],
         sentiment_history |-> esc.sentiment_history,
         path |-> <<[mv |-> "skipped", failure |-> "none", z |-> zs.z]>>,
         response |->
            [enrichedPosts |-> [i \in DOMAIN texts |->
                                  [text |-> texts[i], sentimentScore |-> sentiments[i]]],
             clusters |-> info.clusters,
             metrics |-> [sentimentAcceleration |-> esc.metrics.sentimentAcceleration,
                          clusterGrowthRate |-> esc.metrics.clusterGrowthRate,
                          anomalyScore |-> zs.score,
                          narrativeSpreadSpeed |-> esc.metrics.narrativeSpreadSpeed]]]

\* a variant of the test that sends every batch down the full path
NeverEmptyBatch(posts) == FALSE

\* if not posts
IsEmptyBatch(posts) == posts = <<>>

\* the handler from its first line: the empty batch returns at once, nothing invoked
handle_request(texts, provided, clusterer_fails, mem, d, history) ==
    IF IsEmptyBatch(texts)
    THEN [labels |-> <<>>,
          called |-> <<>>,
          previous_sizes |-> mem,
          state |-> d,
          sentiment_history |-> history,
          path |-> <<>>,
          response |-> EmptyResponse]
    ELSE analyze_posts(texts, provided, clusterer_fails, mem, d, history)

AnalyzeEmpty ==
    /\ served < MaxRequests
    /\ \E r \in {handle_request(<<>>, <<>>, FALSE, previous_sizes, Detector,
                                 sentiment_history)} :
          /\ previous_sizes' = r.previous_sizes
          /\ seen_size' = [l \in Labels \ {NoiseLabel} |->
                              IF CountOf(r.labels, l) > 0 THEN CountOf(r.labels, l)
                              ELSE seen_size[l]]
          /\ SetDetector(r.state)
          /\ sentiment_history' = r.sentiment_history
          /\ served' = served + 1
          /\ called' = r.called
          /\ op' = "analyze_posts"
          /\ args' = [posts |-> <<>>]
          /\ result' = r.response
          /\ raised' = "none"
          /\ path' = r.path
          /\ UNCHANGED <<SKLEARN_AVAILABLE, spikes, loopVars>>

AnalyzePosts ==
    /\ served < MaxRequests
    /\ \E n \in 1..MaxPosts :
         \E texts \in TextBatches(n),
            provided \in IF n < MinClusterInput THEN {<<>>} ELSE [1..n -> Labels],
            clusterer_fails \in IF n < MinClusterInput THEN {FALSE} ELSE BOOLEAN :
           \E r \in {handle_request(texts, provided, clusterer_fails, previous_sizes,
                                     Detector, sentiment_history)} :
              /\ previous_sizes' = r.previous_sizes
              /\ seen_size' = [l \in Labels \ {NoiseLabel} |->
                                  IF CountOf(r.labels, l) > 0 THEN CountOf(r.labels, l)
                                  ELSE seen_size[l]]
              /\ SetDetector(r.state)
              /\ sentiment_history' = r.sentiment_history
              /\ served' = served + 1
              /\ called' = r.called
              /\ op' = "analyze_posts"
              /\ args' = [posts |-> texts]
              /\ result' = r.response
              /\ raised' = "none"
              /\ path' = r.path
              /\ UNCHANGED <<SKLEARN_AVAILABLE, spikes, loopVars>>

NextAnalyze == AnalyzeEmpty \/ AnalyzePosts

SpecAnalyze == InitBuilt /\ [][NextAnalyze]_vars

----------------------------------------------------------------------------
(* Several /analyze requests in one process: uvicorn.run(app) serves them on one
   event loop, each request a coroutine of analyze_posts.  A coroutine is followed
   call by call; it gives the loop back only where it awaits, and when it returns. *)

\* a variant of the handler that awaits its call to get_cluster_info
AwaitClusterInfo == {"get_cluster_info"}

\* the calls of analyze_posts that are awaited: its body has no await expression
AwaitPoints == {}

\* the requests that are submitted: no post, two posts (too few to cluster), or
\* MaxPosts posts put in one cluster or in two clusters and noise
LoopRequests ==
    UNION {{[texts |-> t, provided |-> p, clusterer_fails |-> f] :
               t \in TextBatches(n),
               p \in IF n < MinClusterInput THEN {<<>>}
                     ELSE {[i \in 1..n |-> 0],
                           [i \in 1..n |-> IF i = 1 THEN 0 ELSE IF i = 2 THEN 1
                                                               ELSE NoiseLabel]},
               f \in IF n < MinClusterInput THEN {FALSE} ELSE BOOLEAN} :
           n \in {0, 2, MaxPosts}}

\* the coroutine of a request before its first line has run
NewTask(request) ==
    [texts |-> request.texts, provided |-> request.provided,
     clusterer_fails |-> request.clusterer_fails,
     pc |-> "start", sentiments |-> <<>>, labels |-> <<>>, clusters |-> <<>>,
     anomaly_score |-> 0, metrics |-> EmptyResponse.metrics, response |-> EmptyResponse]

\* one call of the handler, made by coroutine t on the services as they are: the
\* coroutine and the services afterwards
handler_step(t, mem, d, history) ==
    LET same == [previous_sizes |-> mem, state |-> d, sentiment_history |-> history]
    IN  CASE t.pc = "start" ->
               same @@
               [task |-> IF IsEmptyBatch(t.texts)
                         THEN [t EXCEPT !.pc = "done", !.response = EmptyResponse]
                         ELSE [t EXCEPT !.pc = "encode"]]
          [] t.pc = "encode" ->
               same @@ [task |-> [t EXCEPT !.pc = "sentiment"]]
          [] t.pc = "sentiment" ->
               same @@ [task |-> [t EXCEPT !.pc = "cluster",
                                          !.sentiments = [i \in DOMAIN t.texts |->
                                                            SentimentOf[t.texts[i]]]]]
          [] t.pc = "cluster" ->
               same @@ [task |-> [t EXCEPT !.pc = "get_cluster_info",
                                          !.labels = cluster(Len(t.texts), t.provided,
                                                             t.clusterer_fails).labels]]
          [] t.pc = "get_cluster_info" ->
               LET info == get_cluster_info(t.labels, t.texts, t.sentiments, mem)
               IN  [same EXCEPT !.previous_sizes = info.previous_sizes] @@
                   [task |-> [t EXCEPT !.pc = "detect", !.clusters = info.clusters]]
          [] t.pc = "detect" ->
               LET zs == _detect_zscore(d.volume_history, Len(t.texts), d.mean_volume,
                                        d.std_volume)
               IN  [same EXCEPT !.state = [d EXCEPT !.mean_volume = zs.mean_volume,
                                                    !.std_volume = zs.std_volume]] @@
                   [task |-> [t EXCEPT !.pc = "compute_metrics",
                                       !.anomaly_score = zs.score]]
          [] t.pc = "compute_metrics" ->
               LET esc == compute_metrics(history, t.sentiments, t.clusters, Len(t.texts))
               IN  [same EXCEPT !.sentiment_history = esc.sentiment_history] @@
                   [task |-> [t EXCEPT !.pc = "respond", !.metrics = esc.metrics]]
          [] t.pc = "respond" ->
               same @@
               [task |-> [t EXCEPT
                   !.pc = "done",
                   !.response =
                      [enrichedPosts |-> [i \in DOMAIN t.texts |->
                                            [text |-> t.texts[i],
                                             sentimentScore |-> t.sentiments[i]]],
                       clusters |-> t.clusters,
                       metrics |->
                          [sentimentAcceleration |-> t.metrics.sentimentAcceleration,
                           clusterGrowthRate |-> t.metrics.clusterGrowthRate,
                           anomalyScore |-> t.anomaly_score,
                           narrativeSpreadSpeed |-> t.metrics.narrativeSpreadSpeed]]]]

\* a request arrives and its coroutine is created
Submit ==
    /\ Len(tasks) < MaxRequests
    /\ \E request \in LoopRequests : tasks' = Append(tasks, NewTask(request))
    /\ UNCHANGED <<running, detectorVars, spikes, clusterVars, escalationVars, served,
                   called, op, args, result, raised, path>>

\* the idle loop picks a coroutine that has not returned
Schedule ==
    /\ running = 0
    /\ \E id \in DOMAIN tasks :
          /\ tasks[id].pc # "done"
          /\ running' = id
    /\ UNCHANGED <<tasks, detectorVars, spikes, clusterVars, escalationVars, served,
                   called, op, args, result, raised, path>>

\* the running coroutine makes its next call; it gives the loop back if that call is
\* awaited, or if it has returned
Step ==
    /\ running # 0
    /\ \E r \in {handler_step(tasks[running], previous_sizes, Detector,
                               sentiment_history)} :
          /\ tasks' = [tasks EXCEPT ![running] = r.task]
          /\ running' = IF r.task.pc = "done" \/ tasks[running].pc \in AwaitPoints
                        THEN 0 ELSE running
          /\ previous_sizes' = r.previous_sizes
          /\ seen_size' = IF tasks[running].pc = "get_cluster_info"
                          THEN [l \in Labels \ {NoiseLabel} |->
                                  IF CountOf(r.task.labels, l) > 0
                                  THEN CountOf(r.task.labels, l) ELSE seen_size[l]]
                          ELSE seen_size
          /\ SetDetector(r.state)
          /\ sentiment_history' = r.sentiment_history
    /\ UNCHANGED <<SKLEARN_AVAILABLE, spikes, served, called, op, args, result, raised,
                   path>>

NextLoop == Submit \/ Schedule \/ Step

SpecLoop == InitBuilt /\ [][NextLoop]_vars

\* the coroutines that have returned, and those between their first call and their
\* return
Returned == {id \in DOMAIN tasks : tasks[id].pc = "done"}
InFlight == {id \in DOMAIN tasks : tasks[id].pc \notin {"start", "done"}}

\* the orders in which the requests of S can be served one after the other
Orders(S) ==
    {o \in [1..Cardinality(S) -> S] : \A i, j \in DOMAIN o : i # j => o[i] # o[j]}

\* the whole handler run on each request of `order` from position k on, one after the
\* other: the services it leaves and the response of each request
RECURSIVE Serial(_, _, _, _, _, _)
SerialNext(order, k, r, responses) ==
    Serial(order, k + 1, r.previous_sizes, r.state, r.sentiment_history,
           responses @@ (order[k] :> r.response))
Serial(order, k, mem, d, history, responses) ==
    IF k > Len(order)
    THEN [previous_sizes |-> mem, state |-> d, sentiment_history |-> history,
          responses |-> responses]
    ELSE CHOOSE out \in
             {SerialNext(order, k, r, responses) :
                 r \in {handle_request(tasks[order[k]].texts, tasks[order[k]].provided,
                                       tasks[order[k]].clusterer_fails, mem, d,
                                       history)}} : TRUE

\* the services as the process starts them
FreshServices ==
    [previous_sizes |-> [k \in {} |-> 0],
     state |-> NewDetector(TRUE, WindowSize, "none"),
     sentiment_history |-> <<>>]

\* C22: the calls of two requests are never interleaved (at most one coroutine is
\* between its first call and its return), and whenever no request is in flight the
\* state of the services and the response of every request served equal those of
\* the requests served one after the other in some order.
BatchesAreSerialized ==
    /\ Cardinality(InFlight) <= 1
    /\ InFlight = {} =>
          \E o \in Orders(Returned) :
             \E s \in {Serial(o, 1, FreshServices.previous_sizes, FreshServices.state,
                              FreshServices.sentiment_history, <<>>)} :
                /\ s.previous_sizes = previous_sizes
                /\ s.state = Detector
                /\ s.sentiment_history = sentiment_history
                /\ \A id \in Returned : tasks[id].response = s.responses[id]

\* two requests served, the one received first served second: its cluster is
\* reported as shrinking against the size the other request recorded
LaterRequestServedFirst ==
    /\ Len(tasks) = 2
    /\ Returned = {1, 2}
    /\ running = 0
    /\ Len(tasks[1].texts) = 2
    /\ Len(tasks[2].texts) = 3
    /\ tasks[1].response.clusters # <<>>
    /\ tasks[1].response.clusters[1].growthRate[1] < 0
    /\ Len(sentiment_history) = 5

\* C1 (as stated): a batch of 1 or 2 posts gets a response with no clusters, a
\* clusterGrowthRate of 0 and a narrativeSpreadSpeed of 0.
SmallBatchHasNoClusters ==
    (op = "analyze_posts" /\ Len(args.posts) \in {1, 2}) =>
        /\ result.clusters = <<>>
        /\ RatEq(result.metrics.clusterGrowthRate, <<0, 1>>)
        /\ RatEq(result.metrics.narrativeSpreadSpeed, <<0, 1>>)

\* the state of the three services
ServiceState == <<previous_sizes, Detector, sentiment_history>>

\* C14: an empty batch gets empty enrichedPosts, empty clusters and four metrics of 0,
\* no collaborator is invoked and no service state changes.
EmptyBatchShortCircuits ==
    [][(op' = "analyze_posts" /\ args'.posts = <<>>) =>
          /\ result'.enrichedPosts = <<>>
          /\ result'.clusters = <<>>
          /\ RatEq(result'.metrics.sentimentAcceleration, <<0, 1>>)
          /\ RatEq(result'.metrics.clusterGrowthRate, <<0, 1>>)
          /\ result'.metrics.anomalyScore = 0
          /\ RatEq(result'.metrics.narrativeSpreadSpeed, <<0, 1>>)
          /\ called' = <<>>
          /\ ServiceState' = ServiceState]_vars

\* an empty batch served after a batch that left state behind
EmptyBatchAfterWork ==
    /\ op = "analyze_posts"
    /\ args.posts = <<>>
    /\ served = 2
    /\ previous_sizes # <<>>
    /\ sentiment_history # <<>>
    /\ called = <<>>

\* C15 (as stated): after a non-empty batch the detector's volume window ends with the
\* batch's size.
BatchSizeEntersVolumeWindow ==
    (op = "analyze_posts" /\ args.posts # <<>>) =>
        /\ volume_history # <<>>
        /\ volume_history[Len(volume_history)] = Len(args.posts)

----------------------------------------------------------------------------
(* Properties of the anomaly detector *)

DetectOps == {"detect", "detect_simple", "detect_advanced", "detect_batch"}

\* the scores the last call returned, as a sequence
Scores == IF op = "detect_batch" THEN result ELSE <<result>>
\* the score and the branches of the last detect_advanced (or _detect_zscore) that ran
LastScore == Scores[Len(Scores)]
LastPath == path[Len(path)]
\* the last call ran _detect_zscore at its end
OnZscorePath == op \in DetectOps /\ path # <<>> /\ LastPath.z # "none"
\* the volume the last z-score was computed for
LastVolume == IF op = "detect_batch" THEN args.volumes[Len(args.volumes)] ELSE args[1]

\* a/b < c/d for a, c >= 0 and b, d > 0, by continued fractions (no cross products)
RECURSIVE FracLess(_, _, _, _)
FracLess(a, b, c, d) ==
    IF a \div b # c \div d THEN a \div b < c \div d
    ELSE IF c % d = 0 THEN FALSE
    ELSE IF a % b = 0 THEN TRUE
    ELSE FracLess(d, c % d, b, a % b)

\* C4: once the mode is Fallback it stays Fallback across detect, detect_simple,
\* detect_advanced, detect_batch and get_stats; such a call takes the mode out of
\* Multivariate only if the multivariate path failed inside it; nothing but reset may
\* take the mode out of Fallback.
FallbackIsAbsorbing ==
    [][/\ (use_fallback /\ op' \in DetectOps \cup {"get_stats"} => use_fallback')
       /\ (~use_fallback /\ use_fallback' /\ op' \in DetectOps \cup {"get_stats"}
              => \E i \in DOMAIN path' : path'[i].mv = "failed")
       /\ (use_fallback /\ ~use_fallback' => op' = "reset")]_vars

\* a detector that was built with its models, fell back inside a call, and has just
\* taken a detect_advanced with a full window without trying the multivariate path
FallbackKeptWithFullWindow ==
    /\ op = "detect_advanced"
    /\ use_fallback
    /\ isolation_forest = "IsolationForest"
    /\ feature_buffer # <<>>
    /\ Len(volume_history) >= min_samples_for_iforest
    /\ path[1].mv = "skipped"

\* C5 (as stated): with sklearn available and no constructor raising, a reset of a
\* detector that has just fallen back inside a call leaves it in Multivariate mode.
ResetPromotesToMultivariate ==
    [][(/\ op = "detect_advanced" /\ path[1].mv = "failed" /\ use_fallback
        /\ SKLEARN_AVAILABLE
        /\ op' = "reset" /\ args'.constructors = "none")
         => ~use_fallback']_vars

\* the failures that leave _normalize_features or the rest of the try block
Escaping == {"append", "fit", "predict", "score"}

AnomalyScoresInRange ==
    op \in DetectOps => \A i \in DOMAIN Scores : Scores[i] \in 0..10000
\* every narrative spread speed is within [0, 100]
SpreadSpeedInRange ==
    op = "compute_narrative_spread_speed" =>
        RatLe(<<0, 1>>, result) /\ RatLe(result, <<100, 1>>)

\* C7 (as stated): every anomaly score that detect, detect_simple, detect_advanced and
\* detect_batch return and every narrativeSpreadSpeed that
\* compute_narrative_spread_speed returns is within [0, 100].
ScoresInRange == AnomalyScoresInRange /\ SpreadSpeedInRange

\* C8: with fewer than 5 observations in the volume window every score is exactly 0,
\* whatever the volume and however the window got there.
FewSamplesScoreZero ==
    (op \in DetectOps /\ Len(volume_history) < 5) =>
        /\ \A i \in DOMAIN Scores : Scores[i] = 0
        /\ \A i \in DOMAIN path : path[i].z = "few"

\* a detector that fell back, was reset, refilled with four observations (a spike
\* among them) and asked about a volume far from them
FewSamplesAfterReset ==
    /\ op = "detect"
    /\ use_fallback /\ isolation_forest = "IsolationForest"
    /\ Len(volume_history) = 4 /\ spikes = 1
    /\ args = <<145>>
    /\ result = 0

\* C9: on the z-score path with at least 5 observations, a population standard
\* deviation below 0.1 gives exactly 0 and the division is not reached.
FlatWindowScoreZero ==
    (/\ OnZscorePath
     /\ Len(volume_history) >= 5
     /\ 100 * NpStd(volume_history)[1] < Len(volume_history) * Len(volume_history))
        => LastScore = 0 /\ LastPath.z = "flat"

\* five equal observations and a query far away from them
FlatWindowSpikeQuery ==
    /\ op = "detect_simple"
    /\ volume_history = <<95, 95, 95, 95, 95>>
    /\ args = <<145>>
    /\ result = 0

\* the square of the deviation from the mean over the square of three standard
\* deviations, for the last z-score: (|v - mean| / (3 std))^2 = a2 / d9
DeviationSq == (Len(volume_history) * LastVolume - SumSeq(volume_history)) ^ 2
ThreeStdSq == 9 * NpStd(volume_history)[1]
ScoredByZ == OnZscorePath /\ LastPath.z = "z"

\* C10 (amended): on the z-score path with at least 5 observations and a standard
\* deviation of at least 0.1 the score is min(100, |volume - mean| / std / 3 * 100)
\* rounded to 2 decimals: exactly 100 when |volume - mean| >= 3 std, and otherwise
\* within half a hundredth of the exact value.
ZScoreIsRoundedRatio ==
    ScoredByZ =>
        /\ LastScore \in 0..10000
        /\ DeviationSq >= ThreeStdSq => LastScore = 10000
        /\ DeviationSq < ThreeStdSq =>
              /\ ~FracLess((2 * LastScore + 1) * (2 * LastScore + 1), 400000000,
                           DeviationSq, ThreeStdSq)
              /\ LastScore > 0 =>
                    ~FracLess(DeviationSq, ThreeStdSq,
                              (2 * LastScore - 1) * (2 * LastScore - 1), 400000000)

\* window of mean 100 and deviation 10, volume 120: two deviations, 66.67
TwoDeviationsRounded ==
    /\ op = "detect_advanced"
    /\ volume_history = <<95, 95, 95, 95, 120>>
    /\ args = Spike
    /\ result = 6667

\* C10 (as stated): the score equals min(100, |volume - mean| / std / 3 * 100)
\* exactly: (score / 100)^2 = (|v - mean| / (3 std))^2 below the cap.
ZScoreIsExactRatio ==
    ScoredByZ =>
        /\ DeviationSq >= ThreeStdSq => LastScore = 10000
        /\ DeviationSq < ThreeStdSq =>
              /\ ~FracLess(LastScore * LastScore, 100000000, DeviationSq, ThreeStdSq)
              /\ ~FracLess(DeviationSq, ThreeStdSq, LastScore * LastScore, 100000000)

\* a detect_advanced call in Multivariate mode after which the window holds at least
\* min_samples_for_iforest observations and in which nothing failed
TriedWithoutFailure ==
    /\ op = "detect_advanced"
    /\ ~use_fallback
    /\ Len(volume_history) >= min_samples_for_iforest
    /\ path[1].failure = "none"

\* C17 as stated: every such call returns the multivariate outlier score.
WindowFullMeansMultivariateScore == TriedWithoutFailure => path[1].mv = "scored"

\* C17, amended: such a call appends its vector to the feature buffer and returns
\* the multivariate outlier score exactly when the feature buffer then holds at
\* least min_samples_for_iforest vectors; with a shorter buffer it returns the
\* z-score result and the mode stays Multivariate.  The buffer is empty while the
\* window holds fewer than min_samples_for_iforest observations and grows by at
\* most one vector a call, so the first multivariate score after construction or
\* reset comes at the 19th call, not the 10th.
MultivariateScoreNeedsFullBuffer ==
    [][/\ Len(volume_history') < min_samples_for_iforest => feature_buffer' = <<>>
       /\ op' = "detect_advanced" =>
            /\ Len(feature_buffer') <= Len(feature_buffer) + 1
            /\ TriedWithoutFailure' =>
                 /\ Len(feature_buffer') = Min(Len(feature_buffer) + 1, window_size)
                 /\ feature_buffer'[Len(feature_buffer')] = args'
                 /\ IF Len(feature_buffer') >= min_samples_for_iforest
                    THEN /\ path'[1].mv = "scored"
                         /\ path'[1].z = "none"
                         /\ result' \in {OutlierPoints(raw) : raw \in RawScores}
                    ELSE /\ path'[1].mv = "short"
                         /\ path'[1].z # "none"
                         /\ result' = _detect_zscore(volume_history', args'[1],
                                                     mean_volume, std_volume).score
      ]_vars

\* the 10th call after construction or reset in Multivariate mode: the window is
\* full enough, the feature buffer holds its first vector, the z-score is returned
TenthCallScoredByZ ==
    /\ TriedWithoutFailure
    /\ Len(volume_history) = min_samples_for_iforest
    /\ Len(feature_buffer) = 1
    /\ path[1].mv = "short"
    /\ path[1].z # "none"

\* the values a detect_batch call appends to window `field`, a missing one being 0
BatchAppended(field) ==
    LET volumes == args.volumes
        given == OptionalList(volumes, field, args.shape)
    IN  IF field = 1 THEN volumes
        ELSE [i \in 1..Len(volumes) |-> IF i <= Len(given) THEN given[i] ELSE 0]

\* window `after` holds the newest window_size values of `before` followed by xs
HoldsNewest(after, before, xs) ==
    LET all == before \o xs
        n == Min(Len(all), window_size)
    IN  /\ Len(after) = n
        /\ \A i \in 1..n : after[i] = all[Len(all) - n + i]

\* C19: every detect_advanced or detect_batch call leaves each of the three history
\* windows holding the newest min(n, window_size) of the values appended since the
\* last reset, in arrival order (the oldest evicted first); reset empties them, the
\* other calls leave them alone; the feature buffer never holds more than
\* window_size vectors.
WindowsAreFifo ==
    [][/\ Len(feature_buffer') <= window_size'
       /\ window_size' = window_size
       /\ op' = "detect_advanced" =>
            /\ HoldsNewest(volume_history', volume_history, <<args'[1]>>)
            /\ HoldsNewest(sentiment_accel_history', sentiment_accel_history, <<args'[2]>>)
            /\ HoldsNewest(growth_rate_history', growth_rate_history, <<args'[3]>>)
       /\ op' = "detect_batch" =>
            /\ HoldsNewest(volume_history', volume_history, BatchAppended(1)')
            /\ HoldsNewest(sentiment_accel_history', sentiment_accel_history,
                           BatchAppended(2)')
            /\ HoldsNewest(growth_rate_history', growth_rate_history, BatchAppended(3)')
       /\ op' = "reset" =>
            /\ volume_history' = <<>>
            /\ sentiment_accel_history' = <<>>
            /\ growth_rate_history' = <<>>
            /\ feature_buffer' = <<>>
       /\ op' \in {"detect", "detect_simple", "get_stats"} =>
            UNCHANGED <<volume_history, sentiment_accel_history, growth_rate_history,
                        feature_buffer>>
      ]_vars

\* a spike was observed since the last reset and has since been pushed out of the
\* full windows by later quiet observations, while the feature buffer is full too
SpikeEvictedFromWindows ==
    /\ op = "detect_advanced"
    /\ args = Quiet
    /\ spikes = 1
    /\ Len(volume_history) = window_size
    /\ Len(feature_buffer) = window_size
    /\ \A i \in 1..window_size :
          /\ volume_history[i] = Quiet[1]
          /\ growth_rate_history[i] = Quiet[3]

\* the cluster ids of the labels of the last get_cluster_info call, noise left out
IdsSeen == {ClusterId(args.labels[i]) : i \in DOMAIN args.labels} \ {ClusterId(NoiseLabel)}

\* C20: a get_cluster_info call never removes a key of the growth memory; the keys
\* after it are the keys before it and the cluster ids of its labels; for each such
\* id one summary is returned, its growth rate computed from the entry as it was
\* before the call (0 if absent), and the entry is left at the cluster's size; the
\* entries of all other ids are unchanged.
GrowthMemoryOnlyGrows ==
    [][(op' = "get_cluster_info" /\ raised' = "none") =>
          /\ DOMAIN previous_sizes \subseteq DOMAIN previous_sizes'
          /\ DOMAIN previous_sizes' = DOMAIN previous_sizes \cup IdsSeen'
          /\ \A id \in DOMAIN previous_sizes \ IdsSeen' :
                previous_sizes'[id] = previous_sizes[id]
          /\ \A id \in IdsSeen' :
                /\ Cardinality({i \in DOMAIN result' : result'[i].clusterId = id}) = 1
                /\ \A i \in DOMAIN result' :
                      result'[i].clusterId = id =>
                        /\ result'[i].growthRate =
                              GrowthRate(result'[i].size, PrevSize(previous_sizes, id))
                        /\ previous_sizes'[id] = result'[i].size
                        /\ result'[i].size = CountOf(args'.labels, LabelOf(id))
      ]_vars

\* cluster 1 was recorded with two posts in an earlier batch and is absent from the
\* last batch, which held cluster 0 only: its entry is still there, still 2
AbsentClusterKeepsBaseline ==
    /\ op = "get_cluster_info"
    /\ raised = "none"
    /\ CountOf(args.labels, 0) > 0
    /\ CountOf(args.labels, 1) = 0
    /\ ClusterId(1) \in DOMAIN previous_sizes
    /\ previous_sizes[ClusterId(1)] = 2
    /\ seen_size[1] = 2

\* C21: reset, from any state, leaves the three history windows and the feature
\* buffer empty and the statistics at mean 0, std 1; get_stats called next reports
\* history_size 0 and those statistics; and every detect_advanced call that leaves
\* fewer than 5 values in the window (the first four after a reset) returns 0.0
\* from the z-score path without touching the statistics.
ResetClearsDetector ==
    [][/\ op' = "reset" =>
            /\ volume_history' = <<>>
            /\ sentiment_accel_history' = <<>>
            /\ growth_rate_history' = <<>>
            /\ feature_buffer' = <<>>
            /\ mean_volume' = <<0, 1>>
            /\ std_volume' = <<1, 1>>
       /\ (op = "reset" /\ op' = "get_stats") =>
            /\ result'.history_size = 0
            /\ result'.mean_volume = <<0, 1>>
            /\ result'.std_volume = <<1, 1>>
       /\ (op' = "detect_advanced" /\ Len(volume_history') < 5) =>
            /\ result' = 0
            /\ path'[1].mv = "skipped"
            /\ path'[1].z = "few"
            /\ feature_buffer' = <<>>
            /\ mean_volume' = <<0, 1>>
            /\ std_volume' = <<1, 1>>
      ]_vars

\* the fourth detect_advanced call after a reset of a detector that had gone to
\* fallback with both models built (which takes a failure on a window of at least
\* 10 values, or a failed rebuild): a spike, scored 0.0
FourthCallAfterResetScoresZero ==
    /\ op = "detect_advanced"
    /\ args = Spike
    /\ Len(volume_history) = 4
    /\ use_fallback
    /\ scaler = "StandardScaler"
    /\ isolation_forest = "IsolationForest"
    /\ result = 0
    /\ mean_volume = <<0, 1>>

====
